---- MODULE Spec2Model ----
(***************************************************************************)
(* Model of src/main.rs: the Bin/Bins statistics accumulator, the         *)
(* XorShift64 generator and the bench!/bench_one! driver run by main.     *)
(*                                                                         *)
(* Three specifications:                                                   *)
(*   Spec      main: bench! over BTreeMap, then over HashMap.              *)
(*   SpecBin   one Bin fed measurements through add, read through mean.    *)
(*   SpecBins  a Bins of some capacity fed (population, measurement)       *)
(*             pairs through Bins::get(..).add(..).                        *)
(*                                                                         *)
(* The timer: within one run every map operation takes the same number of  *)
(* cycles (ticks), so a bracketed delta is ticks times the operations      *)
(* bracketed. f64::log2 is taken as exact.                                 *)
(*                                                                         *)
(* Representation of u64:                                                  *)
(*   - generator words (keys, values) are exact 64-bit words, written as   *)
(*     the set of their set bit positions, a subset of 0..63;              *)
(*   - tick measurements and Bin fields are integers of WordBits bits      *)
(*     (TLC integers are 32-bit, so the width is scaled; u64::MAX is       *)
(*     2^WordBits - 1 and sums overflow at that width).                    *)
(***************************************************************************)
EXTENDS Integers, Sequences, FiniteSets, TLC

\* ------------------------------------------------------------------ bounds
MaxL == 3
MaxCap == 4
MaxPop == 5
MaxAdds == 4
MaxGets == 3
WordBits == 16

\* ------------------------------------------------------- program constants
SEED == 123456789

U64_MAX == 2^WordBits - 1

\* ------------------------------------------------------------- 64-bit words
Bits == 0..63

\* the 64-bit word of a natural below 2^31
FromNat(n) == {i \in 0..30 : (n \div 2^i) % 2 = 1}

Shl(x, n) == {i + n : i \in {j \in x : j + n <= 63}}

Shr(x, n) == {i - n : i \in {j \in x : j >= n}}

Xor(a, b) == (a \ b) \cup (b \ a)

\* ---------------------------------------------------------------- XorShift64
XorShift64New == FromNat(SEED)

XorShift64NextRightThirteen(a) ==
    LET x1 == Xor(a, Shr(a, 13))
        x2 == Xor(x1, Shr(x1, 7))
        x3 == Xor(x2, Shl(x2, 17))
    IN  x3

\* fn next: the new state, which is also the value returned
XorShift64Next(a) ==
    LET x1 == Xor(a, Shl(a, 13))
        x2 == Xor(x1, Shr(x1, 7))
        x3 == Xor(x2, Shl(x2, 17))
    IN  x3

\* the state after n calls of next
RECURSIVE Advance(_, _)
Advance(a, n) == IF n = 0 THEN a ELSE Advance(XorShift64Next(a), n - 1)

\* the values returned by count successive calls of next, from state a
RECURSIVE Draw(_, _)
Draw(a, count) ==
    IF count = 0 THEN <<>>
    ELSE LET x == XorShift64Next(a) IN <<x>> \o Draw(x, count - 1)

\* ----------------------------------------------------------------------- Bin
BinNew == [min |-> U64_MAX, max |-> 0, sum |-> 0, count |-> 0]

MinU(a, b) == IF a <= b THEN a ELSE b

MaxU(a, b) == IF a >= b THEN a ELSE b

\* self.sum += measurement overflows
AddOverflows(bin, measurement) == bin.sum + measurement > U64_MAX

BinAddMaxOfMin(bin, measurement) ==
    [min   |-> MinU(bin.min, measurement),
     max   |-> MaxU(bin.min, measurement),
     sum   |-> (bin.sum + measurement) % (U64_MAX + 1),
     count |-> bin.count + 1]

\* fn add, the sum wrapping as in a build without overflow checks
BinAdd(bin, measurement) ==
    [min   |-> MinU(bin.min, measurement),
     max   |-> MaxU(bin.max, measurement),
     sum   |-> (bin.sum + measurement) % (U64_MAX + 1),
     count |-> bin.count + 1]

\* u64::div_ceil
DivCeil(a, b) ==
    LET d == a \div b
        r == a % b
    IN  IF r > 0 THEN d + 1 ELSE d

\* fn mean; the caller checks count # 0 (division by zero panics)
BinMean(bin) == DivCeil(bin.sum, bin.count)

\* ---------------------------------------------------------------------- Bins
BinsNew(log_count) == [b \in 1..log_count |-> BinNew]

\* ceil(log2(n)) for n >= 1
RECURSIVE CeilLog2(_)
CeilLog2(n) == IF n <= 1 THEN 0 ELSE 1 + CeilLog2((n + 1) \div 2)

RECURSIVE FloorLog2(_)
FloorLog2(n) == IF n <= 1 THEN 0 ELSE 1 + FloorLog2(n \div 2)

BinsIndexFloor(map_count) ==
    IF map_count = 0 THEN 0 ELSE FloorLog2(map_count)

\* (map_count as f64).log2().ceil() as usize: log2(0.0) is -inf, and the
\* cast of -inf to usize saturates to 0
BinsIndex(map_count) ==
    IF map_count = 0 THEN 0 ELSE CeilLog2(map_count)

BinsGetClamped(bs, map_count) ==
    IF Len(bs) = 0 THEN 0 ELSE MinU(BinsIndex(map_count), Len(bs) - 1) + 1

\* fn get: the position (1-based) in bs of the Bin returned, or 0 when the
\* index is out of range and the indexing panics
BinsGet(bs, map_count) ==
    IF BinsIndex(map_count) < Len(bs) THEN BinsIndex(map_count) + 1 ELSE 0

\* ------------------------------------------------------------------- Metrics
Series == {"insert_miss", "insert_hit", "lookup_hit_all", "lookup_miss",
           "lookup_hit_one", "free"}

MetricsNewOneMore(log_count) == [c \in Series |-> BinsNew(log_count + 1)]

MetricsNew(log_count) == [c \in Series |-> BinsNew(log_count)]

\* ------------------------------------------------------------ the map under test
\* "contract": BTreeMap / HashMap; "absent": a map whose get finds nothing
MapKinds == {"contract", "absent"}

None == <<>>

Some(v) == <<v>>

MapNew == [k \in {} |-> {}]

MapInsert(m, k, v) == [x \in (DOMAIN m) \cup {k} |-> IF x = k THEN v ELSE m[x]]

MapGet(kind, m, k) ==
    IF kind = "contract" /\ k \in DOMAIN m THEN Some(m[k]) ELSE None

MapLen(m) == Cardinality(DOMAIN m)

\* ------------------------------------------------------------------- the timer
\* after - before of two rdtscp readings bracketing nops map operations,
\* each operation taking t cycles
Elapsed(t, nops) == t * nops

\* the costs of one map operation the runs are made with
TickCosts == {1, 3}

\* --------------------------------------------------------------------- state
VARIABLES
    log_count,      \* $log_count of bench! (17 in main)
    mapKind,        \* the map type under test
    ticks,          \* cycles one map operation takes
    overflowChecks, \* TRUE: the build panics on integer overflow; FALSE: wraps
    run,            \* 1: bench!(BTreeMap), 2: bench!(HashMap)
    pc,             \* position in main / bench! / bench_one!
    panicMsg,       \* the panic that aborted the process, "" if none
    log_count_one,  \* outer loop variable of bench!
    rep,            \* inner loop counter of bench!
    i,              \* 1-based position in the current loop of bench_one!
    rng,            \* XorShift64.a
    keys, keys_missing, values,
    map,
    metrics,
    reports,        \* the tables printed so far
    trialLog,       \* history: log_count_one of each trial begun in this bench!
    imLog,          \* history: insert_miss bucket of each insert of this trial
    streams,        \* history: values drawn from rng in run 1 and in run 2
    lookups,        \* history: number of $map.get calls made
    bins,           \* SpecBins: the Bins under test
    samples,        \* SpecBins history: measurements added to each bucket
    last,           \* SpecBins history: the last call and its outcome
    ustatus         \* SpecBins: "ok", or the panic message

benchVars == <<log_count, mapKind, ticks, run, pc, panicMsg, log_count_one, rep,
               i, rng, keys, keys_missing, values, map, metrics, reports,
               trialLog, imLog, streams, lookups>>

unitVars == <<bins, samples, last, ustatus>>

vars == <<benchVars, overflowChecks, unitVars>>

\* -------------------------------------------------------- bench! / bench_one!
\* let count = 1 << $log_count
TrialCountDoubled(s) == 2^(s + 1)

TrialCount(s) == 2^s

\* 1 << ($log_count - log_count_one)
RepsHalved(L, s) == 2^(L - s - 1)

Reps(L, s) == 2^(L - s)

\* the generator state from which keys_missing is drawn: the state the
\* drawing of keys left
MissingStartReseeded(r, count) == r

MissingStart(r, count) == Advance(r, count)

\* values[i] = keys[(i + 1) % count], 0-based
Values(ks, count) == [j \in 1..count |-> ks[(j % count) + 1]]

\* the population insert_miss is recorded at: $map.len() after the insert
InsertMissPopulationBefore(before, after) == MapLen(before)

InsertMissPopulation(before, after) == MapLen(after)

\* number of gets the lookup_hit_all loop makes before it stops
HitAllGets(kind, m, ks) ==
    IF \E j \in 1..Len(ks) : MapGet(kind, m, ks[j]) = None
    THEN CHOOSE j \in 1..Len(ks) :
            /\ MapGet(kind, m, ks[j]) = None
            /\ \A h \in 1..(j - 1) : MapGet(kind, m, ks[h]) # None
    ELSE Len(ks)

HitAllPanicsNever(kind, m, ks) == FALSE

\* the lookup_hit_all loop meets a get that is none
HitAllPanics(kind, m, ks) == \E j \in 1..Len(ks) : MapGet(kind, m, ks[j]) = None

\* outcome of $metrics.<series>.get(population).add(measurement)
RecordOutcome(mt, series, population, measurement, checks) ==
    IF BinsGet(mt[series], population) = 0 THEN "index out of bounds"
    ELSE IF checks /\ AddOverflows(mt[series][BinsGet(mt[series], population)],
                                   measurement)
         THEN "attempt to add with overflow"
         ELSE "ok"

Recorded(mt, series, population, measurement) ==
    [mt EXCEPT ![series][BinsGet(mt[series], population)] =
                   BinAdd(@, measurement)]

\* where bench! goes after Metrics::new: into the first trial, or to printing
EnterLoop(L) == IF L = 0 THEN "render" ELSE "trial"

\* mean() of some bin would divide by zero
MeanPanics(mt) == \E c \in Series : \E b \in DOMAIN mt[c] : mt[c][b].count = 0

\* the min / avg / max rows printed for every series
Table(mt) ==
    [c \in Series |->
        [b \in DOMAIN mt[c] |->
            [min |-> mt[c][b].min, avg |-> BinMean(mt[c][b]), max |-> mt[c][b].max]]]

NoCall == [op |-> "none", population |-> 0, index |-> 0, result |-> 0]

BenchInit ==
    /\ log_count \in 0..MaxL
    /\ mapKind \in MapKinds
    /\ ticks \in TickCosts
    /\ run = 1
    /\ pc = EnterLoop(log_count)
    /\ panicMsg = ""
    /\ log_count_one = 0
    /\ rep = 0
    /\ i = 1
    /\ rng = XorShift64New
    /\ keys = <<>>
    /\ keys_missing = <<>>
    /\ values = <<>>
    /\ map = MapNew
    /\ metrics = MetricsNew(log_count)
    /\ reports = <<>>
    /\ trialLog = <<>>
    /\ imLog = <<>>
    /\ streams = <<<<>>, <<>>>>
    /\ lookups = 0

Init ==
    /\ BenchInit
    /\ overflowChecks \in BOOLEAN
    /\ bins = <<>>
    /\ samples = <<>>
    /\ last = NoCall
    /\ ustatus = "idle"

Abort(msg) ==
    /\ pc' = "panicked"
    /\ panicMsg' = msg

\* lines 175, 98-117: a new map, the emptiness check, keys, keys_missing, values
TrialStart ==
    /\ pc = "trial"
    /\ LET count == TrialCount(log_count_one)
           ks == Draw(rng, count)
           km == Draw(MissingStart(rng, count), count)
       IN  /\ map' = MapNew
           /\ IF MapLen(MapNew) # 0
              THEN /\ Abort("Non-empty map")
                   /\ UNCHANGED <<rng, keys, keys_missing, values, streams>>
              ELSE /\ keys' = ks
                   /\ keys_missing' = km
                   /\ values' = Values(ks, count)
                   /\ rng' = Advance(MissingStart(rng, count), count)
                   /\ streams' = [streams EXCEPT ![run] = @ \o ks \o km]
                   /\ pc' = "insert_miss"
                   /\ UNCHANGED panicMsg
    /\ i' = 1
    /\ trialLog' = Append(trialLog, log_count_one)
    /\ imLog' = <<>>
    /\ UNCHANGED <<log_count, mapKind, ticks, run, log_count_one, rep, metrics,
                   reports, lookups, overflowChecks, unitVars>>

\* lines 119-124, one iteration
InsertMissStep ==
    /\ pc = "insert_miss"
    /\ LET m2 == MapInsert(map, keys[i], values[i])
           pop == InsertMissPopulation(map, m2)
           d == Elapsed(ticks, 1)
           out == RecordOutcome(metrics, "insert_miss", pop, d, overflowChecks)
       IN  /\ map' = m2
           /\ IF out # "ok"
              THEN /\ Abort(out)
                   /\ UNCHANGED <<metrics, imLog, i>>
              ELSE /\ metrics' = Recorded(metrics, "insert_miss", pop, d)
                   /\ imLog' = Append(imLog, BinsGet(metrics["insert_miss"], pop) - 1)
                   /\ IF i < Len(keys)
                      THEN i' = i + 1 /\ pc' = "insert_miss"
                      ELSE i' = 1 /\ pc' = "insert_hit"
                   /\ UNCHANGED panicMsg
    /\ UNCHANGED <<log_count, mapKind, ticks, run, log_count_one, rep, rng, keys,
                   keys_missing, values, reports, trialLog, streams, lookups,
                   overflowChecks, unitVars>>

\* lines 126-131, one iteration
InsertHitStep ==
    /\ pc = "insert_hit"
    /\ LET m2 == MapInsert(map, keys[i], values[i])
           pop == MapLen(m2)
           d == Elapsed(ticks, 1)
           out == RecordOutcome(metrics, "insert_hit", pop, d, overflowChecks)
       IN  /\ map' = m2
           /\ IF out # "ok"
              THEN /\ Abort(out)
                   /\ UNCHANGED <<metrics, i>>
              ELSE /\ metrics' = Recorded(metrics, "insert_hit", pop, d)
                   /\ IF i < Len(keys)
                      THEN i' = i + 1 /\ pc' = "insert_hit"
                      ELSE i' = 1 /\ pc' = "lookup_hit_all"
                   /\ UNCHANGED panicMsg
    /\ UNCHANGED <<log_count, mapKind, ticks, run, log_count_one, rep, rng, keys,
                   keys_missing, values, reports, trialLog, imLog, streams,
                   lookups, overflowChecks, unitVars>>

\* lines 133-146: the whole bracketed loop and its one sample
LookupHitAll ==
    /\ pc = "lookup_hit_all"
    /\ lookups' = lookups + HitAllGets(mapKind, map, keys)
    /\ IF HitAllPanics(mapKind, map, keys)
       THEN /\ Abort("Oh no!")
            /\ UNCHANGED metrics
       ELSE LET count == Len(keys)
                pop == MapLen(map)
                d == Elapsed(ticks, count) \div count
                out == RecordOutcome(metrics, "lookup_hit_all", pop, d, overflowChecks)
            IN  IF out # "ok"
                THEN /\ Abort(out)
                     /\ UNCHANGED metrics
                ELSE /\ metrics' = Recorded(metrics, "lookup_hit_all", pop, d)
                     /\ pc' = "lookup_hit_one"
                     /\ UNCHANGED panicMsg
    /\ i' = 1
    /\ UNCHANGED <<log_count, mapKind, ticks, run, log_count_one, rep, rng, keys,
                   keys_missing, values, map, reports, trialLog, imLog, streams,
                   overflowChecks, unitVars>>

\* lines 148-156, one iteration: the sample is recorded before v is checked
LookupHitOneStep ==
    /\ pc = "lookup_hit_one"
    /\ lookups' = lookups + 1
    /\ LET v == MapGet(mapKind, map, keys[i])
           pop == MapLen(map)
           d == Elapsed(ticks, 1)
           out == RecordOutcome(metrics, "lookup_hit_one", pop, d, overflowChecks)
       IN  IF out # "ok"
           THEN /\ Abort(out)
                /\ UNCHANGED <<metrics, i>>
           ELSE /\ metrics' = Recorded(metrics, "lookup_hit_one", pop, d)
                /\ IF v = None
                   THEN /\ Abort("Oh no!")
                        /\ UNCHANGED i
                   ELSE /\ IF i < Len(keys)
                           THEN i' = i + 1 /\ pc' = "lookup_hit_one"
                           ELSE i' = 1 /\ pc' = "lookup_miss"
                        /\ UNCHANGED panicMsg
    /\ UNCHANGED <<log_count, mapKind, ticks, run, log_count_one, rep, rng, keys,
                   keys_missing, values, map, reports, trialLog, imLog, streams,
                   overflowChecks, unitVars>>

\* lines 158-166, one iteration
LookupMissStep ==
    /\ pc = "lookup_miss"
    /\ lookups' = lookups + 1
    /\ LET v == MapGet(mapKind, map, keys_missing[i])
           pop == MapLen(map)
           d == Elapsed(ticks, 1)
           out == RecordOutcome(metrics, "lookup_miss", pop, d, overflowChecks)
       IN  IF out # "ok"
           THEN /\ Abort(out)
                /\ UNCHANGED <<metrics, i>>
           ELSE /\ metrics' = Recorded(metrics, "lookup_miss", pop, d)
                /\ IF v # None
                   THEN /\ Abort("Oh no!")
                        /\ UNCHANGED i
                   ELSE /\ IF i < Len(keys_missing)
                           THEN i' = i + 1 /\ pc' = "lookup_miss"
                           ELSE i' = 1 /\ pc' = "free"
                        /\ UNCHANGED panicMsg
    /\ UNCHANGED <<log_count, mapKind, ticks, run, log_count_one, rep, rng, keys,
                   keys_missing, values, map, reports, trialLog, imLog, streams,
                   overflowChecks, unitVars>>

\* lines 178-183 and the loop headers of lines 173-174
Free ==
    /\ pc = "free"
    /\ LET len == MapLen(map)
           d == Elapsed(ticks, 1)
           out == RecordOutcome(metrics, "free", len, d, overflowChecks)
       IN  IF out # "ok"
           THEN /\ Abort(out)
                /\ UNCHANGED <<metrics, log_count_one, rep>>
           ELSE /\ metrics' = Recorded(metrics, "free", len, d)
                /\ UNCHANGED panicMsg
                /\ IF rep + 1 < Reps(log_count, log_count_one)
                   THEN /\ rep' = rep + 1
                        /\ pc' = "trial"
                        /\ UNCHANGED log_count_one
                   ELSE /\ rep' = 0
                        /\ log_count_one' = log_count_one + 1
                        /\ pc' = IF log_count_one + 1 < log_count
                                 THEN "trial" ELSE "render"
    /\ UNCHANGED <<log_count, mapKind, ticks, run, i, rng, keys, keys_missing,
                   values, map, reports, trialLog, imLog, streams, lookups,
                   overflowChecks, unitVars>>

\* lines 185-280: print min, avg (mean) and max of every bin of every series
Render ==
    /\ pc = "render"
    /\ IF MeanPanics(metrics)
       THEN /\ Abort("attempt to divide by zero")
            /\ UNCHANGED reports
       ELSE /\ reports' = Append(reports, Table(metrics))
            /\ pc' = "rendered"
            /\ UNCHANGED panicMsg
    /\ UNCHANGED <<log_count, mapKind, ticks, run, log_count_one, rep, i, rng,
                   keys, keys_missing, values, map, metrics, trialLog, imLog,
                   streams, lookups, overflowChecks, unitVars>>

\* lines 293-297 and 172: the second bench!, with a new generator
MainNext ==
    /\ pc = "rendered"
    /\ run = 1
    /\ run' = 2
    /\ rng' = XorShift64New
    /\ metrics' = MetricsNew(log_count)
    /\ log_count_one' = 0
    /\ rep' = 0
    /\ trialLog' = <<>>
    /\ pc' = EnterLoop(log_count)
    /\ UNCHANGED <<log_count, mapKind, ticks, panicMsg, i, keys, keys_missing,
                   values, map, reports, imLog, streams, lookups, overflowChecks,
                   unitVars>>

\* lines 299-300
MainExit ==
    /\ pc = "rendered"
    /\ run = 2
    /\ pc' = "done"
    /\ UNCHANGED <<log_count, mapKind, ticks, run, panicMsg, log_count_one, rep,
                   i, rng, keys, keys_missing, values, map, metrics, reports,
                   trialLog, imLog, streams, lookups, overflowChecks, unitVars>>

Next ==
    \/ TrialStart
    \/ InsertMissStep
    \/ InsertHitStep
    \/ LookupHitAll
    \/ LookupHitOneStep
    \/ LookupMissStep
    \/ Free
    \/ Render
    \/ MainNext
    \/ MainExit

Spec == Init /\ [][Next]_vars

\* ------------------------------------------ SpecBin, SpecBins: the accumulator
\* measurements fed to a Bin
Measurements == {2, 5, 9, U64_MAX}

\* measurements fed to a Bins
BinsMeasurements == {2, U64_MAX}

RECURSIVE SumSeq(_)
SumSeq(q) == IF q = <<>> THEN 0 ELSE Head(q) + SumSeq(Tail(q))

TotalAdds == SumSeq([b \in DOMAIN samples |-> Len(samples[b])])

\* the bench! variables, unused by SpecBin and SpecBins
BenchIdle ==
    /\ log_count = 0
    /\ mapKind = "contract"
    /\ ticks = 1
    /\ run = 1
    /\ pc = "idle"
    /\ panicMsg = ""
    /\ log_count_one = 0
    /\ rep = 0
    /\ i = 1
    /\ rng = XorShift64New
    /\ keys = <<>>
    /\ keys_missing = <<>>
    /\ values = <<>>
    /\ map = MapNew
    /\ metrics = MetricsNew(0)
    /\ reports = <<>>
    /\ trialLog = <<>>
    /\ imLog = <<>>
    /\ streams = <<<<>>, <<>>>>
    /\ lookups = 0

\* SpecBin: one Bin::new()
BinInit ==
    /\ BenchIdle
    /\ overflowChecks \in BOOLEAN
    /\ bins = <<BinNew>>
    /\ samples = <<<<>>>>
    /\ last = NoCall
    /\ ustatus = "ok"

\* bin.add(measurement)
BinAddCall(measurement) ==
    /\ ustatus = "ok"
    /\ TotalAdds < MaxAdds
    /\ last' = [op |-> "add", population |-> 0, index |-> 0, result |-> measurement]
    /\ IF overflowChecks /\ AddOverflows(bins[1], measurement)
       THEN /\ ustatus' = "attempt to add with overflow"
            /\ UNCHANGED <<bins, samples>>
       ELSE /\ bins' = [bins EXCEPT ![1] = BinAdd(@, measurement)]
            /\ samples' = [samples EXCEPT ![1] = Append(@, measurement)]
            /\ UNCHANGED ustatus
    /\ UNCHANGED <<benchVars, overflowChecks>>

\* bin.mean()
BinMeanCall ==
    /\ ustatus = "ok"
    /\ IF bins[1].count = 0
       THEN /\ ustatus' = "attempt to divide by zero"
            /\ last' = [op |-> "mean", population |-> 0, index |-> 0, result |-> 0]
       ELSE /\ last' = [op |-> "mean", population |-> 0, index |-> 0,
                        result |-> BinMean(bins[1])]
            /\ UNCHANGED ustatus
    /\ UNCHANGED <<bins, samples, benchVars, overflowChecks>>

BinNext ==
    \/ \E measurement \in Measurements : BinAddCall(measurement)
    \/ BinMeanCall

SpecBin == BinInit /\ [][BinNext]_vars

\* SpecBins: one Bins::new(capacity)
BinsInit ==
    /\ BenchIdle
    /\ overflowChecks \in BOOLEAN
    /\ \E capacity \in 0..MaxCap :
          /\ bins = BinsNew(capacity)
          /\ samples = [b \in 1..capacity |-> <<>>]
    /\ last = NoCall
    /\ ustatus = "ok"

\* bins.get(population).add(measurement)
BinsGetAdd(population, measurement) ==
    /\ ustatus = "ok"
    /\ TotalAdds < MaxGets
    /\ last' = [op |-> "add", population |-> population,
                index |-> BinsIndex(population), result |-> measurement]
    /\ LET slot == BinsGet(bins, population)
       IN  IF slot = 0
           THEN /\ ustatus' = "index out of bounds"
                /\ UNCHANGED <<bins, samples>>
           ELSE IF overflowChecks /\ AddOverflows(bins[slot], measurement)
                THEN /\ ustatus' = "attempt to add with overflow"
                     /\ UNCHANGED <<bins, samples>>
                ELSE /\ bins' = [bins EXCEPT ![slot] = BinAdd(@, measurement)]
                     /\ samples' = [samples EXCEPT ![slot] = Append(@, measurement)]
                     /\ UNCHANGED ustatus
    /\ UNCHANGED <<benchVars, overflowChecks>>

BinsNext ==
    \E population \in 0..MaxPop : \E measurement \in BinsMeasurements :
        BinsGetAdd(population, measurement)

SpecBins == BinsInit /\ [][BinsNext]_vars

\* ================================================================== properties
\* ceil(log2(max(n, 1))), stated by its defining inequalities
CeilLog2Of(n) ==
    LET m == IF n < 1 THEN 1 ELSE n
    IN  CHOOSE k \in 0..m : 2^k >= m /\ (k = 0 \/ 2^(k - 1) < m)

\* q is ceil(a / b): the least natural with q * b >= a
IsCeilQuotient(q, a, b) == q >= 0 /\ q * b >= a /\ (q = 0 \/ (q - 1) * b < a)

Range(q) == {q[j] : j \in DOMAIN q}

Least(S) == CHOOSE x \in S : \A y \in S : x <= y

Greatest(S) == CHOOSE x \in S : \A y \in S : x >= y

InTrial == pc \in {"insert_miss", "insert_hit", "lookup_hit_all",
                   "lookup_hit_one", "lookup_miss", "free"}

\* C1: Bins.get(n) computes index ceil(log2(max(n,1))): 0 for n = 0 and n = 1,
\* k for every n in (2^(k-1), 2^k]; when that index is in range the
\* measurement goes to that bucket.
C1_BucketIndex ==
    last.op = "add" =>
        /\ (last.population <= 1 => last.index = 0)
        /\ \A k \in 1..(MaxPop + 1) :
              (2^(k - 1) < last.population /\ last.population <= 2^k)
                  => last.index = k
        /\ (ustatus = "ok" =>
              /\ last.index + 1 \in DOMAIN samples
              /\ samples[last.index + 1] # <<>>
              /\ samples[last.index + 1][Len(samples[last.index + 1])] = last.result)

C1_Witness ==
    /\ last.op = "add"
    /\ ustatus = "ok"
    /\ last.population = 5
    /\ last.index = 3
    /\ Len(bins) = 4
    /\ samples[4] = <<last.result>>
    /\ bins[4].count = 1

\* C2: for a Bin that received a non-empty sequence of measurements whose sum
\* fits the word, min is the smallest, max the largest, count their number,
\* mean() is ceil(sum / count), and min <= mean() <= max.
C2_BinStatistics ==
    \A b \in DOMAIN bins :
        (samples[b] # <<>> /\ SumSeq(samples[b]) <= U64_MAX) =>
            /\ bins[b].min = Least(Range(samples[b]))
            /\ bins[b].max = Greatest(Range(samples[b]))
            /\ bins[b].count = Len(samples[b])
            /\ IsCeilQuotient(BinMean(bins[b]), SumSeq(samples[b]), Len(samples[b]))
            /\ bins[b].min <= BinMean(bins[b])
            /\ BinMean(bins[b]) <= bins[b].max
            /\ (last.op = "mean" /\ last.index = b - 1 /\ ustatus = "ok")
                   => IsCeilQuotient(last.result, SumSeq(samples[b]), Len(samples[b]))

C2_Witness ==
    /\ ustatus = "ok"
    /\ last.op = "mean"
    /\ last.result = 5
    /\ last.index + 1 \in DOMAIN samples
    /\ samples[last.index + 1] = <<5, 2, 9, 2>>
    /\ bins[last.index + 1].min = 2
    /\ bins[last.index + 1].max = 9
    /\ bins[last.index + 1].count = 4

\* C3: when bench! leaves its loops it has run exactly 2^(L-s) trials for each
\* s in 0..L-1, in increasing order of s, 2^(L+1)-2 in all, and every trial
\* begins its inserts on a map of length 0.
C3_TrialSchedule ==
    /\ \A j \in 1..Len(trialLog) : \A h \in 1..j : trialLog[h] <= trialLog[j]
    /\ (pc = "insert_miss" /\ i = 1) => MapLen(map) = 0
    /\ pc \in {"render", "rendered", "done"} =>
          /\ Len(trialLog) = 2^(log_count + 1) - 2
          /\ \A s \in 0..(log_count - 1) :
                Cardinality({j \in 1..Len(trialLog) : trialLog[j] = s})
                    = 2^(log_count - s)
          /\ Range(trialLog) = 0..(log_count - 1)

C3_Witness ==
    /\ pc = "done"
    /\ log_count = 3
    /\ Len(trialLog) = 14

\* C4: within a trial the i-th insert of the insert-miss phase is recorded in
\* insert_miss bucket ceil(log2(i)); a finished phase of a trial of size 2^s
\* has put one sample in bucket 0 and spread its samples over buckets 0..s.
C4_InsertMissBuckets ==
    /\ \A j \in 1..Len(imLog) : imLog[j] = CeilLog2Of(j)
    /\ (InTrial /\ pc # "insert_miss") =>
          /\ Len(imLog) = 2^log_count_one
          /\ Cardinality({j \in 1..Len(imLog) : imLog[j] = 0}) = 1
          /\ Range(imLog) = 0..log_count_one
          /\ metrics["insert_miss"][1].count = Len(trialLog)

C4_Witness ==
    /\ pc = "insert_hit"
    /\ log_count_one = 2
    /\ imLog = <<0, 1, 2, 2>>

\* C5: with a map whose get always returns absent (and at least one trial to
\* run) the process aborts at the first get of the first trial: nothing is
\* ever recorded in lookup_hit_all, lookup_hit_one, lookup_miss or free and
\* nothing is printed.
C5_GetAbsentAborts ==
    (mapKind = "absent" /\ log_count >= 1) =>
        /\ \A c \in {"lookup_hit_all", "lookup_hit_one", "lookup_miss", "free"} :
              \A b \in DOMAIN metrics[c] : metrics[c][b].count = 0
        /\ reports = <<>>
        /\ pc \in {"trial", "insert_miss", "insert_hit", "lookup_hit_all", "panicked"}
        /\ lookups <= 1
        /\ pc = "panicked" =>
              /\ panicMsg = "Oh no!"
              /\ lookups = 1
              /\ run = 1
              /\ trialLog = <<0>>

C5_Witness ==
    /\ mapKind = "absent"
    /\ pc = "panicked"
    /\ panicMsg = "Oh no!"
    /\ lookups = 1
    /\ metrics["insert_hit"][1].count = 1

\* C6: in every trial keys_missing shares no key with keys; with a map that
\* honours its contract every key of keys is found, no key of keys_missing
\* is, and the process never panics.
C6_MissBatchDisjoint ==
    /\ InTrial => Range(keys) \cap Range(keys_missing) = {}
    /\ mapKind = "contract" =>
          /\ pc # "panicked"
          /\ pc \in {"lookup_hit_all", "lookup_hit_one"} =>
                \A j \in 1..Len(keys) : MapGet(mapKind, map, keys[j]) # None
          /\ pc = "lookup_miss" =>
                \A j \in 1..Len(keys_missing) :
                    MapGet(mapKind, map, keys_missing[j]) = None

C6_Witness ==
    /\ mapKind = "contract"
    /\ pc = "lookup_miss"
    /\ log_count_one >= 1
    /\ i = Len(keys_missing)
    /\ lookups > 2 * Len(keys)

\* x ^= x << 13; x ^= x >> 7; x ^= x << 17 on 64 bits, bit by bit
StepBits(a) ==
    LET y == [b \in Bits |-> (b \in a) # (b >= 13 /\ (b - 13) \in a)]
        z == [b \in Bits |-> y[b] # (b + 7 <= 63 /\ y[b + 7])]
        w == [b \in Bits |-> z[b] # (b >= 17 /\ z[b - 17])]
    IN  {b \in Bits : w[b]}

\* 132100702508589007, the first value of the sequence seeded with 123456789
FirstValue ==
    {0, 1, 2, 3, 6, 7, 8, 9, 10, 11, 12, 15, 17, 19, 20, 23, 24, 25, 26, 28, 31,
     32, 33, 37, 38, 39, 44, 46, 48, 50, 52, 54, 55, 56}

\* C7: every value drawn is the xorshift step (<< 13, >> 7, << 17, 64-bit
\* wrapping) of the previous state, starting from seed 123456789, and is the
\* new state; the values drawn in the second bench! are those drawn in the
\* first, in the same order.
C7_SameKeyStream ==
    /\ \A j \in 1..Len(streams[1]) :
          streams[1][j] = StepBits(IF j = 1 THEN FromNat(SEED) ELSE streams[1][j - 1])
    /\ Len(streams[1]) >= 1 => streams[1][1] = FirstValue
    /\ (pc # "idle" /\ Len(streams[run]) >= 1) =>
          rng = streams[run][Len(streams[run])]
    /\ Len(streams[2]) <= Len(streams[1])
    /\ \A j \in 1..Len(streams[2]) : streams[2][j] = streams[1][j]
    /\ pc = "done" => streams[2] = streams[1]

C7_Witness ==
    /\ pc = "done"
    /\ log_count >= 2
    /\ Len(streams[2]) >= 16
    /\ streams[2] = streams[1]

\* C8 as claimed: a population above 2^(capacity-1) is recorded in the last
\* bucket, capacity-1.
C8_ClampedToLastBucket ==
    (last.op = "add" /\ Len(bins) >= 1 /\ last.population > 2^(Len(bins) - 1)) =>
        /\ ustatus # "index out of bounds"
        /\ ustatus = "ok" =>
              /\ samples[Len(bins)] # <<>>
              /\ samples[Len(bins)][Len(samples[Len(bins)])] = last.result

\* C8 amended: the index is ceil(log2(max(population,1))), not clamped: below
\* the capacity the measurement is recorded in that bucket; at or above it
\* (population > 2^(capacity-1), or capacity 0) the call panics with an index
\* out of range.
C8_OutOfRangePanics ==
    last.op = "add" =>
        IF CeilLog2Of(last.population) < Len(bins)
        THEN /\ ustatus # "index out of bounds"
             /\ ustatus = "ok" =>
                   LET q == samples[CeilLog2Of(last.population) + 1]
                   IN  q # <<>> /\ q[Len(q)] = last.result
        ELSE ustatus = "index out of bounds"

C8_Witness ==
    /\ last.op = "add"
    /\ Len(bins) = 2
    /\ last.population = 3
    /\ ustatus = "index out of bounds"
    /\ TotalAdds >= 1

\* C9: with a contract-honouring map and L >= 1, when bench! reaches printing
\* every series has L buckets and each of them has count >= 1, so mean()
\* never divides by zero.
C9_NoEmptyBucketAtRender ==
    (mapKind = "contract" /\ log_count >= 1) =>
        /\ panicMsg # "attempt to divide by zero"
        /\ pc = "render" =>
              \A c \in Series :
                  /\ DOMAIN metrics[c] = 1..log_count
                  /\ \A b \in DOMAIN metrics[c] : metrics[c][b].count >= 1

C9_Witness ==
    /\ mapKind = "contract"
    /\ pc = "render"
    /\ log_count >= 2
    /\ run = 2

\* C10: the map population never exceeds 2^(L-1), every series keeps exactly
\* L buckets, and no sample is ever recorded out of range.
C10_BucketIndexInRange ==
    /\ panicMsg # "index out of bounds"
    /\ \A c \in Series : DOMAIN metrics[c] = 1..log_count
    /\ log_count >= 1 =>
          /\ MapLen(map) <= 2^(log_count - 1)
          /\ CeilLog2Of(MapLen(map)) <= log_count - 1

C10_Witness ==
    /\ pc = "free"
    /\ log_count >= 2
    /\ log_count_one = log_count - 1
    /\ MapLen(map) = 2^(log_count - 1)
    /\ metrics["lookup_miss"][log_count].count >= 1

====
